---- MODULE Spec2Model ----
(***************************************************************************)
(* Selection methods of Empirical (source/Evolve/World_select.h) applied   *)
(* to a world of organisms.                                                *)
(*                                                                         *)
(* Slot ids are 1..GetSize here and 0..GetSize-1 in the C++ source; the    *)
(* order of ids is the same.  An organism is identified with its genome, a *)
(* tuple <<b, x1, x2>>: b is the value of the world's base fitness         *)
(* function on it and xj the value of the j-th supplemental / lexicase     *)
(* fitness function on it.  Fitness values are modelled by exact integers   *)
(* and exact rationals (see Scale), without floating point rounding.       *)
(*                                                                         *)
(* The generator Random (include/emp/math/Random.hpp) is modelled on its   *)
(* own, with its 64-bit state and the doubles of its operations exact.     *)
(***************************************************************************)
EXTENDS Integers, Sequences, FiniteSets, TLC

VARIABLES
  alg,      \* which selection function, or which other part, the driver calls
  pop,      \* the world's active population: slot id -> genome or Empty
  pop0,     \* the population when the call was entered (history variable)
  nextPop,  \* the next-generation buffer of a synchronous world
  sync,     \* world.IsSynchronous()
  pc,       \* "idle", "run", "done" or "failed" (an assertion fired)
  args,     \* the arguments of the call
  loc,      \* the local variables of the call that live across rounds
  births,   \* the DoBirth requests made so far: <<parent id, copy count>>
  evals,    \* number of fitness-function evaluations made so far
  draws,    \* number of operations performed on the random generator; for
            \* Random itself, the calls of Get since it was seeded
  hook,     \* the world's optional OnLexicaseSelect observer and its calls
  last      \* what the most recent round did (history variable)

vars == <<alg, pop, pop0, nextPop, sync, pc, args, loc, births, evals, draws, hook, last>>

----------------------------------------------------------------------------
(* Bounds of the model *)

\* largest world.GetSize()
MaxSize == 2
\* largest number of rounds (tournaments, draws, reproductions) of a call
MaxRounds == 2
\* largest copy_count of EliteSelect
MaxCopy == 2
\* largest number of Adjust calls made on an index by its driver
MaxCalls == 3
\* largest number of phenotypes of a MapElitesConfig
MaxPhenotypes == 2
\* largest id_count of a phenotype and largest value of a classifier
MaxBuckets == 3
\* largest positive seed given to a Random
MaxSeed == 3
\* largest number of Get calls made on a Random since it was seeded
MaxDraws == 5

----------------------------------------------------------------------------
(* Generic helpers *)

Empty == <<>>

NoLast == [kind |-> "none"]

\* the observer before any call; implemented tells if the world has the method
NoHook(implemented) ==
  [implemented |-> implemented, calls |-> 0, used |-> <<>>, id |-> 0, at |-> 0]

Range(s) == {s[i] : i \in 1..Len(s)}

RECURSIVE SumSeq(_)
SumSeq(s) == IF s = <<>> THEN 0 ELSE s[1] + SumSeq(Tail(s))

RECURSIVE Repeat(_, _)
Repeat(x, n) == IF n = 0 THEN <<>> ELSE <<x>> \o Repeat(x, n - 1)

SeqsUpTo(S, n) == UNION {[1..k -> S] : k \in 0..n}

Max(S) == CHOOSE x \in S : \A y \in S : y <= x

----------------------------------------------------------------------------
(* The world, as the selection functions use it *)

GetSize(p) == Len(p)

IsOccupied(p, id) == p[id] # Empty

OccupiedIds(p) == {id \in 1..Len(p) : IsOccupied(p, id)}

GetNumOrgs(p) == Cardinality(OccupiedIds(p))

\* the base fitness of a slot; an unoccupied slot has fitness 0
CalcFitnessID(p, id) == IF IsOccupied(p, id) THEN p[id][1] ELSE 0

GetGenomeAt(p, id) == p[id]

\* the ids world.GetRandomOrgID() can return
GetRandomOrgID(p) == OccupiedIds(p)

\* DoBirth(genome, parent, count): a synchronous world appends the copies to
\* the next generation, an asynchronous one places each copy on a slot of the
\* active population; id is the position of the last offspring.
RECURSIVE PlaceAsync(_, _, _)
PlaceAsync(p, genome, count) ==
  IF count = 0 THEN {p}
  ELSE UNION {PlaceAsync([p EXCEPT ![pos] = genome], genome, count - 1) : pos \in 1..Len(p)}

\* the positions DoBirth can return for the last of count offspring
BirthIds(count) == IF sync THEN {Len(nextPop) + count} ELSE 1..Len(pop)

DoBirth(genome, parent, count, id) ==
  /\ births' = Append(births, <<parent, count>>)
  /\ IF sync
       THEN /\ nextPop' = nextPop \o Repeat(genome, count)
            /\ pop' = pop
       ELSE /\ \E q \in PlaceAsync(pop, genome, count - 1) :
                 pop' = [q EXCEPT ![id] = genome]
            /\ nextPop' = nextPop

\* emp_assert(cond) that fired: the call ends here
Fail(why) ==
  /\ pc' = "failed"
  /\ last' = [kind |-> "assert", why |-> why]

Finish(round, total) == pc' = IF round >= total THEN "done" ELSE "run"

----------------------------------------------------------------------------
(* EliteSelect *)

\* a multimap ordered by std::greater: after every element whose key is not less
MultimapInsertDescending(m, pair) ==
  LET k == Cardinality({i \in 1..Len(m) : m[i][1] >= pair[1]})
  IN  SubSeq(m, 1, k) \o <<pair>> \o SubSeq(m, k + 1, Len(m))

\* std::multimap::insert: after every element whose key is not greater
MultimapInsert(m, pair) ==
  LET k == Cardinality({i \in 1..Len(m) : m[i][1] <= pair[1]})
  IN  SubSeq(m, 1, k) \o <<pair>> \o SubSeq(m, k + 1, Len(m))

RECURSIVE EliteFitMap(_, _)
EliteFitMap(p, id) ==
  IF id = 0 THEN <<>>
  ELSE LET m == EliteFitMap(p, id - 1)
       IN  IF IsOccupied(p, id) THEN MultimapInsert(m, <<CalcFitnessID(p, id), id>>) ELSE m

\* line 34 without its second conjunct
EliteAssertsNoUpperBound(p, e_count, copy_count) ==
  /\ e_count > 0
  /\ copy_count > 0

\* line 34 without its first conjunct
EliteAssertsNoLowerBound(p, e_count, copy_count) ==
  /\ e_count <= GetNumOrgs(p)
  /\ copy_count > 0

EliteAsserts(p, e_count, copy_count) ==
  /\ e_count > 0 /\ e_count <= GetNumOrgs(p)
  /\ copy_count > 0

EliteStart ==
  /\ alg = "elite" /\ pc = "idle"
  /\ \E e_count \in 0..MaxSize + 1, copy_count \in 0..MaxCopy :
       /\ args' = [e_count |-> e_count, copy_count |-> copy_count]
       /\ IF EliteAsserts(pop, e_count, copy_count)
            THEN /\ loc' = [fit_map |-> EliteFitMap(pop, GetSize(pop)), i |-> 0]
                 /\ evals' = evals + GetNumOrgs(pop)
                 /\ pc' = "run"
                 /\ last' = last
            ELSE /\ Fail("elite args")
                 /\ UNCHANGED <<loc, evals>>
  /\ UNCHANGED <<alg, pop, pop0, nextPop, sync, hook, births, draws>>

\* one iteration of the loop over the top of fit_map; m is the reverse
\* iterator, i positions after rbegin
EliteStep ==
  /\ alg = "elite" /\ pc = "run"
  /\ LET n == Len(loc.fit_map)
         i == loc.i
     IN  IF i >= n
           THEN /\ Fail("elite iterator past rend")
                /\ UNCHANGED <<pop, nextPop, births, loc>>
           ELSE LET repro_id == loc.fit_map[n - i][2]
                IN  /\ \E id \in BirthIds(args.copy_count) :
                         DoBirth(GetGenomeAt(pop, repro_id), repro_id, args.copy_count, id)
                    /\ loc' = [loc EXCEPT !.i = i + 1]
                    /\ Finish(i + 1, args.e_count)
                    /\ last' = [kind |-> "elite", parent |-> repro_id]
  /\ UNCHANGED <<alg, pop0, sync, hook, args, evals, draws>>

----------------------------------------------------------------------------
(* TournamentSelect *)

\* the loop of lines 78-84 stopping one entry early
RECURSIVE TournamentBestSkipLast(_, _, _, _)
TournamentBestSkipLast(fits, entries, i, best) ==
  IF i > Len(entries) - 1 THEN best
  ELSE TournamentBestSkipLast(fits, entries, i + 1,
                              IF fits[i] > fits[best] THEN i ELSE best)

\* the loop of lines 78-84 with >= at line 80: the last entry of maximal fitness
RECURSIVE TournamentBestLastMax(_, _, _, _)
TournamentBestLastMax(fits, entries, i, best) ==
  IF i > Len(entries) THEN best
  ELSE TournamentBestLastMax(fits, entries, i + 1,
                             IF fits[i] >= fits[best] THEN i ELSE best)

\* lines 74-75 without the loop of lines 78-84: the entry drawn first
TournamentBestFirstDrawn(fits, entries, i, best) == best

\* the loop of lines 74-84: the first entry of maximal fitness
RECURSIVE TournamentBest(_, _, _, _)
TournamentBest(fits, entries, i, best) ==
  IF i > Len(entries) THEN best
  ELSE TournamentBest(fits, entries, i + 1,
                      IF fits[i] > fits[best] THEN i ELSE best)

TournamentAsserts(t_size, tourny_count) == t_size > 0 /\ tourny_count > 0

TournamentStart ==
  /\ alg = "tournament" /\ pc = "idle"
  /\ \E t_size \in 0..MaxSize, tourny_count \in 0..MaxRounds :
       /\ args' = [t_size |-> t_size, tourny_count |-> tourny_count]
       /\ IF TournamentAsserts(t_size, tourny_count)
            THEN pc' = "run" /\ loc' = [T |-> 0] /\ last' = last
            ELSE Fail("tournament args") /\ loc' = loc
  /\ UNCHANGED <<alg, pop, pop0, nextPop, sync, hook, births, evals, draws>>

TournamentRound ==
  /\ alg = "tournament" /\ pc = "run"
  /\ IF GetRandomOrgID(pop) = {}
       THEN /\ Fail("no organism to draw")
            /\ UNCHANGED <<pop, nextPop, births, loc, evals, draws>>
       ELSE \E entries \in [1..args.t_size -> GetRandomOrgID(pop)] :
              LET fits == [i \in 1..args.t_size |-> CalcFitnessID(pop, entries[i])]
                  best_id == entries[TournamentBest(fits, entries, 2, 1)]
              IN  /\ \E id \in BirthIds(1) :
                        DoBirth(GetGenomeAt(pop, best_id), best_id, 1, id)
                  /\ loc' = [T |-> loc.T + 1]
                  /\ Finish(loc.T + 1, args.tourny_count)
                  /\ evals' = evals + args.t_size
                  /\ draws' = draws + args.t_size
                  /\ last' = [kind |-> "tournament", entries |-> entries,
                              fits |-> fits, parent |-> best_id]
  /\ UNCHANGED <<alg, pop0, sync, hook, args>>

----------------------------------------------------------------------------
(* IndexMap: weighted index over the ids 1..n *)

\* an index is the weight of every id and the total weight it maintains

\* IndexMap(n): every id has weight 0
IndexMapNew(n) == [item_weight |-> [id \in 1..n |-> 0], total |-> 0]

\* Adjust that adds the new weight without taking the old one out
AdjustKeepsOld(index, id, weight) ==
  [item_weight |-> [index.item_weight EXCEPT ![id] = weight],
   total |-> index.total + weight]

\* Adjust(id, weight): create or overwrite the weight of id
Adjust(index, id, weight) ==
  [item_weight |-> [index.item_weight EXCEPT ![id] = weight],
   total |-> index.total - index.item_weight[id] + weight]

\* GetWeight(): the total weight
GetWeight(index) == index.total

\* Index(position) is defined for 0 <= position < GetWeight() only
IndexOK(index, position) == 0 <= position /\ position < GetWeight(index)

\* the search with closed intervals: position = weight stays on the id
RECURSIVE IndexScanClosed(_, _, _)
IndexScanClosed(item_weight, position, id) ==
  IF id >= Len(item_weight) \/ position <= item_weight[id] THEN id
  ELSE IndexScanClosed(item_weight, position - item_weight[id], id + 1)

\* the search for position among the ids id.., position counted from the
\* start of the interval of id
RECURSIVE IndexScan(_, _, _)
IndexScan(item_weight, position, id) ==
  IF id >= Len(item_weight) \/ position < item_weight[id] THEN id
  ELSE IndexScan(item_weight, position - item_weight[id], id + 1)

\* Index(position): the id whose half-open cumulative interval holds position
Index(index, position) == IndexScan(index.item_weight, position, 1)

----------------------------------------------------------------------------
(* RouletteSelect *)

\* the index loaded with the same weight for every slot
RECURSIVE RouletteLoadUniform(_, _)
RouletteLoadUniform(p, id) ==
  IF id = 0 THEN IndexMapNew(GetSize(p))
  ELSE Adjust(RouletteLoadUniform(p, id - 1), id, 1)

\* lines 102-105: the weight of every slot id is its fitness
RECURSIVE RouletteLoad(_, _)
RouletteLoad(p, id) ==
  IF id = 0 THEN IndexMapNew(GetSize(p))
  ELSE Adjust(RouletteLoad(p, id - 1), id, CalcFitnessID(p, id))

\* lines 111-113 skipped whatever the world is
RouletteRegisterNever(index, p, offspring_id) == index

\* lines 111-113: an asynchronous world's offspring gets its weight
RouletteRegister(index, p, offspring_id) ==
  IF sync = FALSE THEN Adjust(index, offspring_id, CalcFitnessID(p, offspring_id))
  ELSE index

\* random.GetDouble(max) lies in [0, max), and is 0 when max is 0; with
\* integer weights the integer part of the position decides Index
GetDouble(max) == IF max > 0 THEN 0..(max - 1) ELSE {0}

RouletteStart ==
  /\ alg = "roulette" /\ pc = "idle"
  /\ \E count \in 0..MaxRounds :
       /\ args' = [count |-> count]
       /\ IF count > 0
            THEN /\ loc' = [fitness_index |-> RouletteLoad(pop, GetSize(pop)), n |-> 0]
                 /\ evals' = evals + GetSize(pop)
                 /\ pc' = "run"
                 /\ last' = last
            ELSE /\ Fail("roulette args")
                 /\ UNCHANGED <<loc, evals>>
  /\ UNCHANGED <<alg, pop, pop0, nextPop, sync, hook, births, draws>>

RouletteRound ==
  /\ alg = "roulette" /\ pc = "run"
  /\ draws' = draws + 1
  /\ \E fit_pos \in GetDouble(GetWeight(loc.fitness_index)) :
       IF ~IndexOK(loc.fitness_index, fit_pos)
         THEN /\ Fail("index position outside the total weight")
              /\ UNCHANGED <<pop, nextPop, births, loc, evals>>
         ELSE LET parent_id == Index(loc.fitness_index, fit_pos)
              IN  \E offspring_id \in BirthIds(1) :
                    /\ DoBirth(GetGenomeAt(pop, parent_id), parent_id, 1, offspring_id)
                    /\ loc' = [fitness_index |->
                                  RouletteRegister(loc.fitness_index, pop', offspring_id),
                                n |-> loc.n + 1]
                    /\ evals' = IF sync THEN evals ELSE evals + 1
                    /\ Finish(loc.n + 1, args.count)
                    /\ last' = [kind |-> "roulette", fit_pos |-> fit_pos,
                                parent |-> parent_id, offspring |-> offspring_id,
                                weights |-> loc.fitness_index.item_weight]
  /\ UNCHANGED <<alg, pop0, sync, hook, args>>

----------------------------------------------------------------------------
(* LexicaseSelect *)

\* the fitness functions a caller can pass: function t returns genome[1 + t]
FunIds == {1, 2}

\* the values those functions take
FunVals == {0, 1}

FitFun(t, org) == org[1 + t]

\* longest list of fitness functions passed to a call
MaxFuns == Cardinality(FunIds)

\* lines 142-152 with line 145 never true: every organism a list of its own
RECURSIVE GenotypeListsNoMerge(_, _)
GenotypeListsNoMerge(p, n) ==
  IF n = 0 THEN <<>>
  ELSE LET lists == GenotypeListsNoMerge(p, n - 1)
       IN  IF ~IsOccupied(p, n) THEN lists ELSE Append(lists, <<n>>)

\* lines 142-152: the slot ids of every genotype, genotypes in the order of
\* their first occupied slot
RECURSIVE GenotypeLists(_, _)
GenotypeLists(p, n) ==
  IF n = 0 THEN <<>>
  ELSE LET lists == GenotypeLists(p, n - 1)
           has == {g \in 1..Len(lists) : p[lists[g][1]] = p[n]}
       IN  IF ~IsOccupied(p, n) THEN lists
           ELSE IF has # {}
                  THEN LET g == CHOOSE x \in has : TRUE
                       IN  [lists EXCEPT ![g] = Append(lists[g], n)]
                  ELSE Append(lists, <<n>>)

\* lines 163-172: fitnesses[fit_id][gen], each function evaluated on the first
\* organism of each genotype
LexFitnesses(p, fit_funs, lists) ==
  [fit_id \in 1..Len(fit_funs) |->
     [gen \in 1..Len(lists) |-> FitFun(fit_funs[fit_id], p[lists[gen][1]])]]

\* the scan with >= in place of > at line 208: an equal value resets next_gens
RECURSIVE LexScanResetOnEqual(_, _, _, _, _)
LexScanResetOnEqual(row, cur_gens, i, max_fit, next_gens) ==
  IF i > Len(cur_gens) THEN next_gens
  ELSE LET gen_id == cur_gens[i]
           cur_fit == row[gen_id]
       IN  IF cur_fit >= max_fit
             THEN LexScanResetOnEqual(row, cur_gens, i + 1, cur_fit, <<gen_id>>)
             ELSE LexScanResetOnEqual(row, cur_gens, i + 1, max_fit, next_gens)

\* the scan with < in place of > at line 208: the least value is kept
RECURSIVE LexScanKeepMin(_, _, _, _, _)
LexScanKeepMin(row, cur_gens, i, max_fit, next_gens) ==
  IF i > Len(cur_gens) THEN next_gens
  ELSE LET gen_id == cur_gens[i]
           cur_fit == row[gen_id]
       IN  IF cur_fit < max_fit
             THEN LexScanKeepMin(row, cur_gens, i + 1, cur_fit, <<gen_id>>)
             ELSE IF cur_fit = max_fit
                    THEN LexScanKeepMin(row, cur_gens, i + 1, max_fit, Append(next_gens, gen_id))
                    ELSE LexScanKeepMin(row, cur_gens, i + 1, max_fit, next_gens)

\* lines 204-218: the scan of cur_gens from position i on
RECURSIVE LexScan(_, _, _, _, _)
LexScan(row, cur_gens, i, max_fit, next_gens) ==
  IF i > Len(cur_gens) THEN next_gens
  ELSE LET gen_id == cur_gens[i]
           cur_fit == row[gen_id]
       IN  IF cur_fit > max_fit
             THEN LexScan(row, cur_gens, i + 1, cur_fit, <<gen_id>>)
             ELSE IF cur_fit = max_fit
                    THEN LexScan(row, cur_gens, i + 1, max_fit, Append(next_gens, gen_id))
                    ELSE LexScan(row, cur_gens, i + 1, max_fit, next_gens)

\* lines 201-221: one fitness function applied to cur_gens (not empty)
LexFilter(row, cur_gens) ==
  LexScan(row, cur_gens, 1, row[cur_gens[1]], <<cur_gens[1]>>)

\* lines 192-224: the functions of order applied from position k on; trace
\* holds cur_gens after each function applied so far
RECURSIVE LexRun(_, _, _, _, _)
LexRun(fitnesses, order, k, cur_gens, trace) ==
  IF k > Len(order) THEN [cur_gens |-> cur_gens, trace |-> trace]
  ELSE LET new == LexFilter(fitnesses[order[k]], cur_gens)
       IN  IF Len(new) = 1
             THEN [cur_gens |-> new, trace |-> Append(trace, new)]
             ELSE LexRun(fitnesses, order, k + 1, new, Append(trace, new))

\* lines 228-231
RECURSIVE LexOptions(_, _)
LexOptions(lists, cur_gens) ==
  IF cur_gens = <<>> THEN 0
  ELSE Len(lists[cur_gens[1]]) + LexOptions(lists, Tail(cur_gens))

\* lines 233-241: the organism the draw winner stands for, -1 if none
RECURSIVE LexPick(_, _, _)
LexPick(lists, cur_gens, winner) ==
  IF cur_gens = <<>> THEN -1
  ELSE LET gen == cur_gens[1]
       IN  IF winner < Len(lists[gen]) THEN lists[gen][winner + 1]
           ELSE LexPick(lists, Tail(cur_gens), winner - Len(lists[gen]))

\* GetPermutation(random, n): the orders of 1..n it can return
GetPermutation(n) == {f \in [1..n -> 1..n] : \A i, j \in 1..n : f[i] = f[j] => i = j}

\* lines 186-187 taken whatever max_funs is
LexOrdersIndependent(max_funs, n) == [1..max_funs -> 1..n]

\* lines 181-188: the orders the generator can produce
LexOrders(max_funs, n) ==
  IF max_funs = n THEN GetPermutation(n) ELSE [1..max_funs -> 1..n]

LexicaseAsserts(p, fit_funs) == GetSize(p) > 0 /\ Len(fit_funs) > 0

LexicaseStart ==
  /\ alg = "lexicase" /\ pc = "idle"
  /\ \E fit_funs \in SeqsUpTo(FunIds, MaxFuns), repro_count \in 0..MaxRounds,
        max_funs \in 0..MaxFuns :
       /\ args' = [fit_funs |-> fit_funs, repro_count |-> repro_count,
                   max_funs |-> max_funs]
       /\ IF LexicaseAsserts(pop, fit_funs)
            THEN LET lists == GenotypeLists(pop, GetSize(pop))
                 IN  /\ loc' = [genotype_lists |-> lists,
                                all_gens |-> [i \in 1..Len(lists) |-> i],
                                max_funs |-> IF max_funs = 0 THEN Len(fit_funs) ELSE max_funs,
                                fitnesses |-> LexFitnesses(pop, fit_funs, lists),
                                repro |-> 0]
                     /\ evals' = evals + Len(fit_funs) * Len(lists)
                     /\ Finish(0, repro_count)
                     /\ last' = last
            ELSE /\ Fail("lexicase args")
                 /\ UNCHANGED <<loc, evals>>
  /\ UNCHANGED <<alg, pop, pop0, nextPop, sync, hook, births, draws>>

\* line 245 with the whole order in place of the slice
LexUsedWholeOrder(order, depth) == order

\* line 245: the functions of order applied before the loop ended
LexUsed(order, depth) == SubSeq(order, 1, depth + 1)

\* line 248: TriggerOnLexicaseSelect(world, used, repro_id) calls the world's
\* method if the world has one and does nothing otherwise; at is the number
\* of births made before the call
TriggerOnLexicaseSelect(h, used, repro_id) ==
  IF h.implemented
    THEN [implemented |-> TRUE, calls |-> h.calls + 1, used |-> used,
          id |-> repro_id, at |-> Len(births)]
    ELSE h

LexicaseRound ==
  /\ alg = "lexicase" /\ pc = "run"
  /\ \E order \in LexOrders(loc.max_funs, Len(args.fit_funs)) :
       IF loc.all_gens = <<>>
         THEN \* cur_gens[0] of an empty vector: the range check of emp::vector
              /\ Fail("cur_gens[0] out of range")
              /\ draws' = draws + 1
              /\ UNCHANGED <<pop, nextPop, births, loc, hook>>
         ELSE LET run == LexRun(loc.fitnesses, order, 1, loc.all_gens, <<>>)
                  cur_gens == run.cur_gens
                  depth == Len(run.trace) - 1
                  options == LexOptions(loc.genotype_lists, cur_gens)
              IN  \* repro_id for some value of winner = GetUInt(options)
                  \E repro_id \in {LexPick(loc.genotype_lists, cur_gens, winner) :
                                      winner \in 0..(options - 1)} :
                        /\ draws' = draws + 2
                        /\ IF repro_id = -1
                             THEN /\ Fail("no organism for the draw")
                                  /\ UNCHANGED <<pop, nextPop, births, loc, hook>>
                             ELSE /\ hook' = TriggerOnLexicaseSelect(hook, LexUsed(order, depth),
                                                                     repro_id)
                                  /\ \E id \in BirthIds(1) :
                                       DoBirth(GetGenomeAt(pop, repro_id), repro_id, 1, id)
                                  /\ loc' = [loc EXCEPT !.repro = loc.repro + 1]
                                  /\ Finish(loc.repro + 1, args.repro_count)
                                  /\ last' = [kind |-> "lexicase", order |-> order,
                                              parent |-> repro_id]
  /\ UNCHANGED <<alg, pop0, sync, args, evals>>

----------------------------------------------------------------------------
(* EcoSelect *)

\* the pool sizes a caller can pass
PoolVals == {1, 2}

RECURSIVE Factorial(_)
Factorial(n) == IF n <= 1 THEN 1 ELSE n * Factorial(n - 1)

\* base_fitness holds doubles: the rational v is stored as the integer
\* v * Scale, which every division of the call leaves an integer
Scale == Factorial(MaxSize)

\* lines 282-291 for one function: max_extra_fit and max_count after the
\* organisms i.. have been scanned; values[i] is the function on organism i
RECURSIVE EcoScan(_, _, _, _)
EcoScan(values, i, max_extra_fit, max_count) ==
  IF i > Len(values) THEN [max_extra_fit |-> max_extra_fit, max_count |-> max_count]
  ELSE LET cur_fit == values[i]
       IN  IF cur_fit > max_extra_fit THEN EcoScan(values, i + 1, cur_fit, 1)
           ELSE IF cur_fit = max_extra_fit
                  THEN EcoScan(values, i + 1, max_extra_fit, max_count + 1)
                  ELSE EcoScan(values, i + 1, max_extra_fit, max_count)

\* lines 272-293: extra_fitnesses, max_extra_fit and max_count of every function
EcoCollect(p, extra_funs) ==
  [ex_id \in 1..Len(extra_funs) |->
     LET values == [org_id \in 1..Len(p) |-> FitFun(extra_funs[ex_id], p[org_id])]
         scan == EcoScan(values, 1, 0, 0)
     IN  [values |-> values, max_extra_fit |-> scan.max_extra_fit,
          max_count |-> scan.max_count]]

\* line 297: the functions whose reward someone gets
EcoRewarded(info) == {ex_id \in 1..Len(info) : info[ex_id].max_count # 0}

\* lines 296-312: base_fitness after the bonus of the functions ex_id.. is added
RECURSIVE EcoAdjust(_, _, _, _)
EcoAdjust(base_fitness, info, pool_sizes, ex_id) ==
  IF ex_id > Len(info) THEN base_fitness
  ELSE IF ex_id \notin EcoRewarded(info)
         THEN EcoAdjust(base_fitness, info, pool_sizes, ex_id + 1)
         ELSE LET cur_bonus == (pool_sizes[ex_id] * Scale) \div info[ex_id].max_count
                  adjusted == [org_id \in 1..Len(base_fitness) |->
                                 IF info[ex_id].values[org_id] = info[ex_id].max_extra_fit
                                   THEN base_fitness[org_id] + cur_bonus
                                   ELSE base_fitness[org_id]]
              IN  EcoAdjust(adjusted, info, pool_sizes, ex_id + 1)

\* line 263 (a base fitness function is always set in this model)
EcoAsserts(p, t_size) == GetSize(p) > 0 /\ t_size > 0 /\ t_size <= GetSize(p)

\* world[org_id] of line 283 needs an organism in the slot
EcoOrgsOK(p, extra_funs) == extra_funs = <<>> \/ OccupiedIds(p) = 1..Len(p)

\* pool_sizes[ex_id] of line 300 is range-checked by emp::vector
EcoPoolsOK(info, pool_sizes) == \A ex_id \in EcoRewarded(info) : ex_id <= Len(pool_sizes)

EcoStart ==
  /\ alg = "eco" /\ pc = "idle"
  /\ \E extra_funs \in SeqsUpTo(FunIds, MaxFuns), pool_sizes \in SeqsUpTo(PoolVals, MaxFuns + 1),
        t_size \in 0..MaxSize + 1, tourny_count \in 0..MaxRounds :
       /\ args' = [extra_funs |-> extra_funs, pool_sizes |-> pool_sizes,
                   t_size |-> t_size, tourny_count |-> tourny_count]
       /\ IF ~EcoAsserts(pop, t_size)
            THEN Fail("eco args") /\ UNCHANGED <<loc, evals>>
            ELSE IF ~EcoOrgsOK(pop, extra_funs)
              THEN /\ Fail("no organism in the slot")
                   /\ evals' = evals + 1
                   /\ loc' = loc
              ELSE LET info == EcoCollect(pop, extra_funs)
                       base == [org_id \in 1..Len(pop) |-> CalcFitnessID(pop, org_id) * Scale]
                   IN  /\ evals' = evals + GetSize(pop) * (1 + Len(extra_funs))
                       /\ IF ~EcoPoolsOK(info, pool_sizes)
                            THEN Fail("pool_sizes index out of range") /\ loc' = loc
                            ELSE /\ loc' = [info |-> info,
                                            base_fitness |-> EcoAdjust(base, info, pool_sizes, 1),
                                            T |-> 0]
                                 /\ Finish(0, tourny_count)
                                 /\ last' = last
  /\ UNCHANGED <<alg, pop, pop0, nextPop, sync, hook, births, draws>>

EcoRound ==
  /\ alg = "eco" /\ pc = "run"
  /\ IF GetRandomOrgID(pop) = {}
       THEN /\ Fail("no organism to draw")
            /\ UNCHANGED <<pop, nextPop, births, loc, draws>>
       ELSE \E entries \in [1..args.t_size -> GetRandomOrgID(pop)] :
              LET fits == [i \in 1..args.t_size |-> loc.base_fitness[entries[i]]]
                  best_id == entries[TournamentBest(fits, entries, 2, 1)]
              IN  /\ \E id \in BirthIds(1) :
                        DoBirth(GetGenomeAt(pop, best_id), best_id, 1, id)
                  /\ loc' = [loc EXCEPT !.T = loc.T + 1]
                  /\ Finish(loc.T + 1, args.tourny_count)
                  /\ draws' = draws + args.t_size
                  /\ last' = [kind |-> "eco", entries |-> entries,
                              fits |-> fits, parent |-> best_id]
  /\ UNCHANGED <<alg, pop0, sync, hook, args, evals>>

----------------------------------------------------------------------------
(* A driver of the weighted index: any Adjust calls, any Index lookups *)

IndexMapAdjust ==
  /\ alg = "indexmap" /\ pc = "run"
  /\ Len(loc.calls) < MaxCalls
  /\ \E id \in 1..args.n, weight \in 0..2 :
       /\ loc' = [fitness_index |-> Adjust(loc.fitness_index, id, weight),
                  calls |-> Append(loc.calls, <<id, weight>>)]
       /\ last' = [kind |-> "adjust", id |-> id, weight |-> weight]
  /\ UNCHANGED <<alg, pop, pop0, nextPop, sync, pc, args, births, evals, draws, hook>>

IndexMapIndex ==
  /\ alg = "indexmap" /\ pc = "run"
  /\ \E position \in GetDouble(GetWeight(loc.fitness_index)) :
       IF ~IndexOK(loc.fitness_index, position)
         THEN Fail("index position outside the total weight")
         ELSE /\ pc' = pc
              /\ last' = [kind |-> "index", position |-> position,
                          id |-> Index(loc.fitness_index, position)]
  /\ UNCHANGED <<alg, pop, pop0, nextPop, sync, args, loc, births, evals, draws, hook>>

----------------------------------------------------------------------------
(* MapElitesConfig *)

\* a phenotype is [pid, id_count]: pid is the value pheno_fun returns on the
\* organism GetID is called with.  The ids computed stay far below 2^64, so
\* the width of size_t plays no part.
Phenotypes == [pid : 0..MaxBuckets, id_count : 0..MaxBuckets]

\* lines 358-362: MapElitesPhenotype::GetID, whose assertion holds
PhenotypeIDOK(p) == p.pid < p.id_count

\* the loop of lines 373-377 with the scale of line 376 never updated
RECURSIVE ConfigGetIDUnscaled(_, _, _, _)
ConfigGetIDUnscaled(phenotypes, k, id, scale) ==
  IF k > Len(phenotypes) THEN id
  ELSE ConfigGetIDUnscaled(phenotypes, k + 1, id + phenotypes[k].pid * scale, scale)

\* the loop of lines 373-377 with line 376 moved before line 375
RECURSIVE ConfigGetIDScaleFirst(_, _, _, _)
ConfigGetIDScaleFirst(phenotypes, k, id, scale) ==
  IF k > Len(phenotypes) THEN id
  ELSE ConfigGetIDScaleFirst(phenotypes, k + 1,
                             id + phenotypes[k].pid * scale * phenotypes[k].id_count,
                             scale * phenotypes[k].id_count)

\* lines 372-378: MapElitesConfig::GetID from the k-th phenotype on
RECURSIVE ConfigGetID(_, _, _, _)
ConfigGetID(phenotypes, k, id, scale) ==
  IF k > Len(phenotypes) THEN id
  ELSE ConfigGetID(phenotypes, k + 1, id + phenotypes[k].pid * scale,
                   scale * phenotypes[k].id_count)

MapElitesGetID ==
  /\ alg = "mapelites" /\ pc = "idle"
  /\ \E phenotypes \in SeqsUpTo(Phenotypes, MaxPhenotypes) :
       /\ args' = [phenotypes |-> phenotypes]
       /\ IF \A k \in 1..Len(phenotypes) : PhenotypeIDOK(phenotypes[k])
            THEN /\ pc' = "done"
                 /\ last' = [kind |-> "getid", id |-> ConfigGetID(phenotypes, 1, 0, 1)]
            ELSE Fail("phenotype id out of range")
  /\ UNCHANGED <<alg, pop, pop0, nextPop, sync, loc, births, evals, draws, hook>>

\* lines 381-385: MapElitesConfig::GetIDCount from the k-th phenotype on
RECURSIVE GetIDCount(_, _, _)
GetIDCount(phenotypes, k, id_count) ==
  IF k > Len(phenotypes) THEN id_count
  ELSE GetIDCount(phenotypes, k + 1, id_count * phenotypes[k].id_count)

\* what MapElitesConfig::OK reads of a phenotype: whether pheno_fun holds a
\* classifier, and id_count
PhenotypeSettings == [pheno_fun : BOOLEAN, id_count : 0..MaxBuckets]

\* line 356 without its test of id_count
PhenotypeOKIgnoresCount(p) == p.pheno_fun

\* line 356: MapElitesPhenotype::OK
PhenotypeOK(p) == p.pheno_fun /\ p.id_count # 0

\* line 369: MapElitesConfig::OK
ConfigOK(phenotypes) == \A k \in 1..Len(phenotypes) : PhenotypeOK(phenotypes[k])

\* lines 398-399 and 412-413: the body of MapElitesSeed and of MapElitesGrow
MapElitesBody(fun) ==
  IF GetSize(pop) = 0 THEN Fail("world is empty")
  ELSE IF ~ConfigOK(args'.phenotypes) THEN Fail("config is not OK")
  ELSE /\ pc' = "done"
       /\ last' = [kind |-> fun]

\* lines 394-400: MapElitesSeed(world, config, org)
MapElitesSeed ==
  /\ alg = "mapelites" /\ pc = "idle"
  /\ \E phenotypes \in SeqsUpTo(PhenotypeSettings, MaxPhenotypes),
        org \in {<<b, 0, 0>> : b \in {0, 1}} :
       args' = [fun |-> "seed", phenotypes |-> phenotypes, org |-> org]
  /\ MapElitesBody("seed")
  /\ UNCHANGED <<alg, pop, pop0, nextPop, sync, loc, births, evals, draws, hook>>

\* lines 408-414: MapElitesGrow(world, config, repro_count)
MapElitesGrow ==
  /\ alg = "mapelites" /\ pc = "idle"
  /\ \E phenotypes \in SeqsUpTo(PhenotypeSettings, MaxPhenotypes),
        repro_count \in 1..MaxRounds :
       args' = [fun |-> "grow", phenotypes |-> phenotypes, repro_count |-> repro_count]
  /\ MapElitesBody("grow")
  /\ UNCHANGED <<alg, pop, pop0, nextPop, sync, loc, births, evals, draws, hook>>

----------------------------------------------------------------------------
(* Unsigned integers of the widths of the C++ types.  A value is the        *)
(* little-endian sequence of its bytes; an operation that takes a length n  *)
(* returns n bytes, that is the result modulo 2^(8n): 4 bytes are a         *)
(* uint32_t, 8 bytes a uint64_t.                                            *)

\* the bytes of cols[i..] after adding the carry c into column i
RECURSIVE Carry(_, _, _)
Carry(cols, i, c) ==
  IF i > Len(cols) THEN <<>>
  ELSE <<(cols[i] + c) % 256>> \o Carry(cols, i + 1, (cols[i] + c) \div 256)

Byte(a, i) == IF i >= 1 /\ i <= Len(a) THEN a[i] ELSE 0

Nat2Big(x, n) == Carry([i \in 1..n |-> IF i = 1 THEN x ELSE 0], 1, 0)

Resize(a, n) == [i \in 1..n |-> Byte(a, i)]

BigAdd(a, b, n) == Carry([i \in 1..n |-> Byte(a, i) + Byte(b, i)], 1, 0)

\* a - b modulo 2^(8n), as the sum of a, the complement of b and 1
BigSub(a, b, n) ==
  Carry([i \in 1..n |-> Byte(a, i) + 255 - Byte(b, i) + (IF i = 1 THEN 1 ELSE 0)], 1, 0)

BigMul(a, b, n) ==
  Carry([k \in 1..n |-> SumSeq([i \in 1..k |-> Byte(a, i) * Byte(b, k + 1 - i)])], 1, 0)

RECURSIVE BigLessFrom(_, _, _)
BigLessFrom(a, b, i) ==
  IF i = 0 THEN FALSE
  ELSE IF Byte(a, i) # Byte(b, i) THEN Byte(a, i) < Byte(b, i)
  ELSE BigLessFrom(a, b, i - 1)

BigLess(a, b) == BigLessFrom(a, b, Max({Len(a), Len(b)}))

BigEq(a, b) == ~BigLess(a, b) /\ ~BigLess(b, a)

\* number of significant bits
RECURSIVE BitLenFrom(_, _)
BitLenFrom(a, i) ==
  IF i = 0 THEN 0
  ELSE IF a[i] # 0 THEN 8 * (i - 1) + Max({k \in 1..8 : 2^(k - 1) <= a[i]})
  ELSE BitLenFrom(a, i - 1)

BitLen(a) == BitLenFrom(a, Len(a))

\* 2^s in n bytes
Pow2(s, n) == [i \in 1..n |-> IF i = (s \div 8) + 1 THEN 2^(s % 8) ELSE 0]

\* a >> s and a << s in Len(a) bytes
ShiftRight(a, s) ==
  [i \in 1..Len(a) |->
     (Byte(a, i + (s \div 8)) \div 2^(s % 8))
       + (Byte(a, i + (s \div 8) + 1) % 2^(s % 8)) * 2^(8 - (s % 8))]

ShiftLeft(a, s) ==
  [i \in 1..Len(a) |->
     ((Byte(a, i - (s \div 8)) * 2^(s % 8)) % 256)
       + (Byte(a, i - (s \div 8) - 1) \div 2^(8 - (s % 8)))]

\* a modulo 2^s
LowBits(a, s) == BigSub(a, ShiftLeft(ShiftRight(a, s), s), Len(a))

----------------------------------------------------------------------------
(* IEEE double values that are not negative: [m, e] is m / 2^e with m of at  *)
(* most 53 significant bits.  Only the operations Random uses are here.     *)

\* m / 2^e rounded to the nearest double, ties to the even mantissa
RoundDouble(m, e) ==
  LET s == BitLen(m) - 53 IN
  IF s <= 0 THEN [m |-> m, e |-> e]
  ELSE LET q == ShiftRight(m, s)
           rem == LowBits(m, s)
           half == Pow2(s - 1, Len(m))
           up == BigLess(half, rem) \/ (BigEq(rem, half) /\ q[1] % 2 = 1)
       IN [m |-> IF up THEN BigAdd(q, Nat2Big(1, 1), Len(m)) ELSE q, e |-> e - s]

\* x * y of two doubles
DoubleMul(x, y) == RoundDouble(BigMul(x.m, y.m, 20), x.e + y.e)

\* x >= y of two doubles
DoubleGeq(x, y) ==
  ~BigLess(ShiftLeft(Resize(x.m, 20), y.e), ShiftLeft(Resize(y.m, 20), x.e))

\* static_cast<uint32_t>(x) of a double below 2^32
DoubleToUInt32(x) == Resize(ShiftRight(x.m, x.e), 4)

\* exp(-mean16 / 16) as <cmath> returns it, for the means used here; the
\* bytes are the double times 2^54
ExpNeg(mean16) ==
  [m |-> CASE mean16 = 0 -> <<0, 0, 0, 0, 0, 0, 64, 0>>
           [] mean16 = 4 -> <<22, 4, 89, 61, 223, 215, 49, 0>>
           [] mean16 = 7 -> <<18, 250, 109, 50, 78, 82, 41, 0>>
           [] mean16 = 8 -> <<20, 44, 223, 248, 101, 209, 38, 0>>
           [] mean16 = 14 -> <<75, 173, 93, 9, 222, 173, 26, 0>>
           [] mean16 = 16 -> <<56, 239, 44, 54, 86, 139, 23, 0>>,
   e |-> 54]

----------------------------------------------------------------------------
(* Random (include/emp/math/Random.hpp): the middle square Weyl sequence    *)
(* generator.  A generator is [value, weyl_state, original_seed], each a    *)
(* uint64_t; expRV is left out, being read by GetRandNormal only.  An       *)
(* operation returns [rng, out, gets, ok]: the generator after it, its      *)
(* result, the number of calls of Get it made, and whether it returned      *)
(* within the budget of Get calls it was given.  A probability p is given   *)
(* by the integer 16 * p.                                                   *)

\* line 41: 2^32
RAND_CAP == <<0, 0, 0, 0, 1>>

\* line 42: 0xb5ad4eceda1ce2a9
STEP_SIZE == <<169, 226, 28, 218, 206, 78, 173, 181>>

\* lines 47-52 without the swap of line 50
GetNoSwap(r) ==
  LET weyl_state == BigAdd(r.weyl_state, STEP_SIZE, 8)
      value == BigAdd(BigMul(r.value, r.value, 8), weyl_state, 8)
  IN [rng |-> [r EXCEPT !.value = value, !.weyl_state = weyl_state],
      out |-> SubSeq(value, 1, 4), gets |-> 1, ok |-> TRUE]

\* lines 47-52: Get()
Get(r) ==
  LET squared == BigMul(r.value, r.value, 8)
      weyl_state == BigAdd(r.weyl_state, STEP_SIZE, 8)
      sum == BigAdd(squared, weyl_state, 8)
      value == SubSeq(sum, 5, 8) \o SubSeq(sum, 1, 4)
  IN [rng |-> [r EXCEPT !.value = value, !.weyl_state = weyl_state],
      out |-> SubSeq(value, 1, 4), gets |-> 1, ok |-> TRUE]

\* lines 68-83 with the test of line 70 always true
ResetSeedFromClock(r, seed, entropy) ==
  [r EXCEPT !.weyl_state = BigMul(entropy, Nat2Big(2, 8), 8),
            !.original_seed = entropy]

\* lines 68-83 with line 80 after line 82
ResetSeedKeepsDoubled(r, seed, entropy) ==
  LET weyl_state == IF seed <= 0 THEN entropy ELSE Nat2Big(seed, 8)
  IN [r EXCEPT !.weyl_state = BigMul(weyl_state, Nat2Big(2, 8), 8),
               !.original_seed = BigMul(weyl_state, Nat2Big(2, 8), 8)]

\* lines 68-83: ResetSeed(seed); entropy is the value of
\* time(NULL) ^ (uint64_t) this that line 71 reads when seed <= 0
ResetSeed(r, seed, entropy) ==
  LET weyl_state == IF seed <= 0 THEN entropy ELSE Nat2Big(seed, 8)
  IN [r EXCEPT !.weyl_state = BigMul(weyl_state, Nat2Big(2, 8), 8),
               !.original_seed = weyl_state]

\* lines 33-35 and 56-58: Random(seed)
NewRandom(seed, entropy) ==
  ResetSeed([value |-> Nat2Big(0, 8), weyl_state |-> Nat2Big(0, 8),
             original_seed |-> Nat2Big(0, 8)], seed, entropy)

\* line 64
GetSeed(r) == r.original_seed

\* line 89: GetDouble() of the raw draw out
RawDouble(out) == [m |-> out, e |-> 32]

\* line 106 in the place of lines 110-112
GetUIntUnscaled(r, max) == Get(r)

\* lines 110-112: GetUInt(max)
GetUInt(r, max) ==
  LET g == Get(r)
  IN [g EXCEPT !.out = DoubleToUInt32(DoubleMul(RawDouble(g.out), [m |-> max, e |-> 0]))]

\* line 234: the assertion of P, GetRandPoisson and GetRandGeometric
ProbabilityOK(p16) == p16 >= 0 /\ p16 <= 16

\* line 235 with 2^31 in the place of RAND_CAP
PHalfCap(r, p16) ==
  LET g == Get(r)
  IN [g EXCEPT !.out = BigLess(g.out, ShiftRight(BigMul(Nat2Big(p16, 5), RAND_CAP, 5), 5))]

\* line 235: P(p); p * RAND_CAP is 16 p * 2^32 / 16
P(r, p16) ==
  LET g == Get(r)
  IN [g EXCEPT !.out = BigLess(g.out, ShiftRight(BigMul(Nat2Big(p16, 5), RAND_CAP, 5), 4))]

\* lines 279-283: the loop of GetRandPoisson(mean)
RECURSIVE PoissonLoop(_, _, _, _, _, _)
PoissonLoop(r, a, u, k, gets, budget) ==
  IF ~DoubleGeq(u, a)
    THEN [rng |-> r, out |-> Nat2Big(k, 4), gets |-> gets, ok |-> TRUE]
  ELSE IF budget = 0
    THEN [rng |-> r, out |-> Nat2Big(k, 4), gets |-> gets, ok |-> FALSE]
  ELSE LET g == Get(r)
       IN PoissonLoop(g.rng, a, DoubleMul(u, RawDouble(g.out)), k + 1, gets + 1, budget - 1)

\* lines 272-284: GetRandPoisson(mean)
GetRandPoissonMean(r, mean16, budget) ==
  IF BitLen(ExpNeg(mean16).m) = 0
    THEN [rng |-> r, out |-> <<255, 255, 255, 255>>, gets |-> 0, ok |-> TRUE]
  ELSE IF budget = 0
    THEN [rng |-> r, out |-> Nat2Big(0, 4), gets |-> 0, ok |-> FALSE]
  ELSE LET g == Get(r)
       IN PoissonLoop(g.rng, ExpNeg(mean16), RawDouble(g.out), 0, 1, budget - 1)

\* lines 267-268: GetRandPoisson(n, p) with n a whole number
GetRandPoisson(r, n, p16, budget) ==
  IF p16 > 8
    THEN LET c == GetRandPoissonMean(r, n * (16 - p16), budget)
         IN [c EXCEPT !.out = BigSub(Nat2Big(n, 4), c.out, 4)]
    ELSE GetRandPoissonMean(r, n * p16, budget)

\* line 306: std::numeric_limits<uint32_t>::infinity(), which is 0 for a
\* type without an infinity
Infinity32 == Nat2Big(0, 4)

\* lines 308-309: the loop of GetRandGeometric
RECURSIVE GeometricLoop(_, _, _, _, _)
GeometricLoop(r, p16, result, gets, budget) ==
  IF budget = 0 THEN [rng |-> r, out |-> result, gets |-> gets, ok |-> FALSE]
  ELSE LET t == P(r, p16)
       IN IF t.out
            THEN [rng |-> t.rng, out |-> result, gets |-> gets + 1, ok |-> TRUE]
            ELSE GeometricLoop(t.rng, p16, BigAdd(result, Nat2Big(1, 4), 4),
                               gets + 1, budget - 1)

\* lines 305-310 with result starting at 0
GetRandGeometricFromZero(r, p16, budget) ==
  IF p16 = 0 THEN [rng |-> r, out |-> Infinity32, gets |-> 0, ok |-> TRUE]
  ELSE GeometricLoop(r, p16, Nat2Big(0, 4), 0, budget)

\* lines 305-310: GetRandGeometric(p)
GetRandGeometric(r, p16, budget) ==
  IF p16 = 0 THEN [rng |-> r, out |-> Infinity32, gets |-> 0, ok |-> TRUE]
  ELSE GeometricLoop(r, p16, Nat2Big(1, 4), 0, budget)

----------------------------------------------------------------------------
(* Drivers of Random: loc.a is the generator, args.seed the seed it was     *)
(* last given, draws the number of Get calls since then.                    *)

\* the seeds given to the constructor and to ResetSeed; -1 is the default
Seeds == {-1} \cup 1..MaxSeed

\* values of time(NULL) ^ (uint64_t) this
Entropies == {<<21, 205, 91, 7, 0, 0, 0, 0>>, <<3, 0, 0, 0, 0, 0, 0, 128>>}

\* 16 p for the probabilities p passed: -1/16, 0, 1/4, 1/2, 9/16, 1, 17/16
Probabilities == {-1, 0, 4, 8, 9, 16, 17}

\* 2451274665: the product of the first draw of Random(1), 0xb5ad4ece, and
\* this max is 2 below a multiple of 2^32 and has 63 bits
RoundingMax == <<169, 123, 27, 146, 0>>

\* the values of max passed to GetUInt
UIntMaxes == {Nat2Big(1, 5), Nat2Big(3, 5), RoundingMax, RAND_CAP}

\* the values of n passed to GetRandPoisson
PoissonCounts == {0, 1, 2}

\* the generator and the counters after an operation that returned res
RandomReturns(res, rec) ==
  /\ res.ok
  /\ loc' = [loc EXCEPT !.a = res.rng]
  /\ draws' = draws + res.gets
  /\ pc' = pc
  /\ last' = rec @@ [pre |-> loc.a, out |-> res.out, gets |-> res.gets]

\* the assertion of line 234, 265 or 301 fired in the operation op
RandomFails(op, p16) ==
  /\ pc' = "failed"
  /\ last' = [kind |-> "assert", why |-> "p outside [0, 1]", op |-> op, p16 |-> p16]
  /\ UNCHANGED <<loc, draws>>

RandomGet ==
  /\ alg = "random" /\ pc = "run" /\ draws < MaxDraws
  /\ RandomReturns(Get(loc.a), [kind |-> "Get"])
  /\ UNCHANGED <<alg, pop, pop0, nextPop, sync, args, births, evals, hook>>

RandomResetSeed ==
  /\ alg = "random" /\ pc = "run" /\ loc.resets = 0
  /\ \E seed \in Seeds, entropy \in Entropies :
       /\ loc' = [a |-> ResetSeed(loc.a, seed, entropy), resets |-> 1]
       /\ args' = [seed |-> seed]
       /\ last' = [kind |-> "ResetSeed", pre |-> loc.a, seed |-> seed]
  /\ draws' = 0
  /\ UNCHANGED <<alg, pop, pop0, nextPop, sync, pc, births, evals, hook>>

RandomP ==
  /\ alg = "random" /\ pc = "run"
  /\ \E p16 \in Probabilities :
       IF ~ProbabilityOK(p16)
         THEN RandomFails("P", p16)
         ELSE /\ draws < MaxDraws
              /\ RandomReturns(P(loc.a, p16), [kind |-> "P", p16 |-> p16])
  /\ UNCHANGED <<alg, pop, pop0, nextPop, sync, args, births, evals, hook>>

RandomGetUInt ==
  /\ alg = "random" /\ pc = "run" /\ draws < MaxDraws
  /\ \E max \in UIntMaxes :
       RandomReturns(GetUInt(loc.a, max), [kind |-> "GetUInt", max |-> max])
  /\ UNCHANGED <<alg, pop, pop0, nextPop, sync, args, births, evals, hook>>

RandomGeometric ==
  /\ alg = "random" /\ pc = "run"
  /\ \E p16 \in Probabilities :
       IF ~ProbabilityOK(p16)
         THEN RandomFails("GetRandGeometric", p16)
         ELSE RandomReturns(GetRandGeometric(loc.a, p16, MaxDraws - draws),
                            [kind |-> "GetRandGeometric", p16 |-> p16])
  /\ UNCHANGED <<alg, pop, pop0, nextPop, sync, args, births, evals, hook>>

RandomPoisson ==
  /\ alg = "random" /\ pc = "run"
  /\ \E n \in PoissonCounts, p16 \in Probabilities :
       IF ~ProbabilityOK(p16)
         THEN RandomFails("GetRandPoisson", p16)
         ELSE RandomReturns(GetRandPoisson(loc.a, n, p16, MaxDraws - draws),
                            [kind |-> "GetRandPoisson", n |-> n, p16 |-> p16])
  /\ UNCHANGED <<alg, pop, pop0, nextPop, sync, args, births, evals, hook>>

----------------------------------------------------------------------------
(* Two generators side by side: loc.a as above and loc.b, a second instance *)
(* on which loc.bdraws Get calls were made.                                 *)

\* the operations made on both generators
DrawOps ==
  { [name |-> "Get"],
    [name |-> "P", p16 |-> 8],
    [name |-> "GetUInt", max |-> Nat2Big(3, 5)],
    [name |-> "GetRandGeometric", p16 |-> 8],
    [name |-> "GetRandPoisson", n |-> 1, p16 |-> 9] }

\* the operation op on the generator r
Draw(r, op, budget) ==
  IF budget = 0 THEN [rng |-> r, out |-> <<>>, gets |-> 0, ok |-> FALSE]
  ELSE CASE op.name = "Get" -> Get(r)
         [] op.name = "P" -> P(r, op.p16)
         [] op.name = "GetUInt" -> GetUInt(r, op.max)
         [] op.name = "GetRandGeometric" -> GetRandGeometric(r, op.p16, budget)
         [] op.name = "GetRandPoisson" -> GetRandPoisson(r, op.n, op.p16, budget)

\* the same operation on both generators
TwinDraw ==
  /\ alg = "twins" /\ pc = "run"
  /\ \E op \in DrawOps :
       LET ra == Draw(loc.a, op, MaxDraws - draws)
           rb == Draw(loc.b, op, MaxDraws - loc.bdraws)
       IN /\ ra.ok /\ rb.ok
          /\ loc' = [loc EXCEPT !.a = ra.rng, !.b = rb.rng,
                                !.bdraws = loc.bdraws + rb.gets]
          /\ draws' = draws + ra.gets
          /\ last' = [kind |-> "draw", op |-> op, outa |-> ra.out, outb |-> rb.out]
  /\ UNCHANGED <<alg, pop, pop0, nextPop, sync, pc, args, births, evals, hook>>

\* ResetSeed(seed) with a seed > 0 on loc.a, which has made loc.used Get
\* calls by then, while loc.b becomes a newly constructed Random(seed); no
\* entropy is read for such a seed
TwinResetSeed ==
  /\ alg = "twins" /\ pc = "run" /\ loc.resets = 0
  /\ \E seed \in 1..MaxSeed :
       /\ loc' = [a |-> ResetSeed(loc.a, seed, <<>>), b |-> NewRandom(seed, <<>>),
                  bdraws |-> 0, resets |-> 1, used |-> draws]
       /\ args' = [seed |-> seed]
       /\ last' = [kind |-> "ResetSeed", seed |-> seed]
  /\ draws' = 0
  /\ UNCHANGED <<alg, pop, pop0, nextPop, sync, pc, births, evals, hook>>

----------------------------------------------------------------------------
(* Initial states and specifications *)

\* the values of the base fitness function
BaseVals == {0, 1, 2}

\* genomes that differ in base fitness only
BaseGenomes == {<<b, 0, 0>> : b \in BaseVals}

Worlds(genomes) == SeqsUpTo(genomes \cup {Empty}, MaxSize)

InitFor(a, genomes) ==
  /\ alg = a
  /\ pop \in Worlds(genomes)
  /\ pop0 = pop
  /\ nextPop = <<>>
  /\ sync \in BOOLEAN
  /\ pc = "idle"
  /\ args = [none |-> TRUE]
  /\ loc = [none |-> TRUE]
  /\ births = <<>>
  /\ evals = 0
  /\ draws = 0
  /\ hook = NoHook(FALSE)
  /\ last = NoLast

InitElite == InitFor("elite", BaseGenomes)
NextElite == EliteStart \/ EliteStep
SpecElite == InitElite /\ [][NextElite]_vars

InitTournament == InitFor("tournament", BaseGenomes)
NextTournament == TournamentStart \/ TournamentRound
SpecTournament == InitTournament /\ [][NextTournament]_vars

InitRoulette == InitFor("roulette", BaseGenomes)
NextRoulette == RouletteStart \/ RouletteRound
SpecRoulette == InitRoulette /\ [][NextRoulette]_vars

\* genomes that differ in the values of the functions of FunIds only
FunGenomes == {<<0, x1, x2>> : x1 \in FunVals, x2 \in FunVals}

InitLexicase == InitFor("lexicase", FunGenomes)
NextLexicase == LexicaseStart \/ LexicaseRound
SpecLexicase == InitLexicase /\ [][NextLexicase]_vars

\* LexicaseSelect on worlds with and without the OnLexicaseSelect method
InitObserved ==
  \E implemented \in BOOLEAN :
    /\ alg = "lexicase"
    /\ pop \in Worlds(FunGenomes)
    /\ pop0 = pop
    /\ nextPop = <<>>
    /\ sync \in BOOLEAN
    /\ pc = "idle"
    /\ args = [none |-> TRUE]
    /\ loc = [none |-> TRUE]
    /\ births = <<>>
    /\ evals = 0
    /\ draws = 0
    /\ hook = NoHook(implemented)
    /\ last = NoLast

SpecObserved == InitObserved /\ [][NextLexicase]_vars

\* genomes for EcoSelect: base fitness 0 or 1, function 1 of either sign,
\* function 2 zero on every organism
EcoGenomes == {<<b, x1, 0>> : b \in {0, 1}, x1 \in {-1, 0, 1}}

InitEco == InitFor("eco", EcoGenomes)
NextEco == EcoStart \/ EcoRound
SpecEco == InitEco /\ [][NextEco]_vars

InitIndexMap ==
  /\ alg = "indexmap"
  /\ pop = <<>> /\ pop0 = <<>> /\ nextPop = <<>>
  /\ sync = TRUE
  /\ pc = "run"
  /\ \E n \in 1..MaxSize :
       /\ args = [n |-> n]
       /\ loc = [fitness_index |-> IndexMapNew(n), calls |-> <<>>]
  /\ births = <<>>
  /\ evals = 0
  /\ draws = 0
  /\ hook = NoHook(FALSE)
  /\ last = NoLast

NextIndexMap == IndexMapAdjust \/ IndexMapIndex

\* the index as RouletteSelect uses it and as any other caller may
SpecIndexMap == (InitRoulette \/ InitIndexMap) /\ [][NextRoulette \/ NextIndexMap]_vars

InitMapElites ==
  /\ alg = "mapelites"
  /\ pop = <<>> /\ pop0 = <<>> /\ nextPop = <<>>
  /\ sync = TRUE
  /\ pc = "idle"
  /\ args = [none |-> TRUE]
  /\ loc = [none |-> TRUE]
  /\ births = <<>>
  /\ evals = 0
  /\ draws = 0
  /\ hook = NoHook(FALSE)
  /\ last = NoLast

NextMapElites == MapElitesGetID
SpecMapElites == InitMapElites /\ [][NextMapElites]_vars

\* MapElitesSeed and MapElitesGrow on worlds of every size, 0 included
InitMapElitesCalls == InitFor("mapelites", {<<0, 0, 0>>})
NextMapElitesCalls == MapElitesSeed \/ MapElitesGrow
SpecMapElitesCalls == InitMapElitesCalls /\ [][NextMapElitesCalls]_vars

\* a generator constructed with any seed, then any operations on it
InitRandom ==
  /\ alg = "random"
  /\ pop = <<>> /\ pop0 = <<>> /\ nextPop = <<>>
  /\ sync = TRUE
  /\ pc = "run"
  /\ \E seed \in Seeds, entropy \in Entropies :
       /\ args = [seed |-> seed]
       /\ loc = [a |-> NewRandom(seed, entropy), resets |-> 0]
  /\ births = <<>>
  /\ evals = 0
  /\ draws = 0
  /\ hook = NoHook(FALSE)
  /\ last = NoLast

NextRandom ==
  RandomGet \/ RandomP \/ RandomGetUInt \/ RandomGeometric \/ RandomPoisson
SpecRandom == InitRandom /\ [][NextRandom]_vars

\* draws from a generator that is seeded at construction and once more
NextSeeded == RandomGet \/ RandomP \/ RandomResetSeed
SpecSeeded == InitRandom /\ [][NextSeeded]_vars

\* two generators constructed with the same seed argument, then the same
\* operations on both
InitTwins ==
  /\ alg = "twins"
  /\ pop = <<>> /\ pop0 = <<>> /\ nextPop = <<>>
  /\ sync = TRUE
  /\ pc = "run"
  /\ \E seed \in Seeds, ea \in Entropies, eb \in Entropies :
       /\ args = [seed |-> seed]
       /\ loc = [a |-> NewRandom(seed, ea), b |-> NewRandom(seed, eb),
                 bdraws |-> 0, resets |-> 0, used |-> 0]
  /\ births = <<>>
  /\ evals = 0
  /\ draws = 0
  /\ hook = NoHook(FALSE)
  /\ last = NoLast

NextTwins == TwinDraw \/ TwinResetSeed
SpecTwins == InitTwins /\ [][NextTwins]_vars

Init == InitElite \/ InitTournament \/ InitRoulette \/ InitLexicase \/ InitEco
Next == NextElite \/ NextTournament \/ NextRoulette \/ NextLexicase \/ NextEco
Spec == Init /\ [][Next]_vars

----------------------------------------------------------------------------
(* Properties *)

\* the slot that holds the single strict fitness maximum of p, if there is one
StrictMaxIds(p) ==
  {id \in OccupiedIds(p) :
     \A other \in OccupiedIds(p) \ {id} : CalcFitnessID(p, other) < CalcFitnessID(p, id)}

HasStrictMax(p) == StrictMaxIds(p) # {}

FullSizeTournament(p) ==
  /\ alg = "tournament" /\ pc = "run"
  /\ args.t_size = GetSize(p) \/ args.t_size = GetNumOrgs(p)
  /\ HasStrictMax(p)

\* C1 as stated: in TournamentSelect with t_size equal to the population size
\* and a population with one strict fitness maximum, the parent of every
\* birth is that maximum organism, whatever ids are drawn.
C1_ParentIsGlobalMax ==
  [][(FullSizeTournament(pop) /\ last'.kind = "tournament")
       => last'.parent \in StrictMaxIds(pop)]_vars

\* C1 amended: under the same conditions the parent of every birth is one of
\* the ids drawn (with replacement) and no drawn id has a greater fitness; it
\* is the maximum organism if and only if that organism was drawn.
C1_ParentIsMaxOfEntries ==
  [][(FullSizeTournament(pop) /\ last'.kind = "tournament")
       => /\ last'.parent \in Range(last'.entries)
          /\ \A e \in Range(last'.entries) :
               CalcFitnessID(pop, e) <= CalcFitnessID(pop, last'.parent)
          /\ last'.parent \in StrictMaxIds(pop)
               <=> StrictMaxIds(pop) \cap Range(last'.entries) # {}]_vars

\* a full-size tournament on two or more organisms drew the maximum last and
\* reproduced it
C1_Witness ==
  /\ alg = "tournament" /\ last.kind = "tournament" /\ sync
  /\ args.t_size = GetSize(pop) /\ GetNumOrgs(pop) >= 2
  /\ HasStrictMax(pop)
  /\ last.parent \in StrictMaxIds(pop)
  /\ last.entries[1] \notin StrictMaxIds(pop)
  /\ births = <<<<last.parent, 1>>>>

EntryFailure ==
  /\ pc = "failed"
  /\ evals = 0 /\ draws = 0 /\ births = <<>>
  /\ pop = pop0 /\ nextPop = <<>>

\* C8: EliteSelect with e_count = 0, TournamentSelect with t_size = 0 and
\* LexicaseSelect with no fitness function fail at entry: no fitness is
\* evaluated, nothing is drawn, nothing is born, the population is unchanged.
C8_ZeroArgsFailAtEntry ==
  pc # "idle" =>
    /\ (alg = "elite" /\ args.e_count = 0) => EntryFailure
    /\ (alg = "tournament" /\ args.t_size = 0) => EntryFailure
    /\ (alg = "lexicase" /\ args.fit_funs = <<>>) => EntryFailure

\* EliteSelect was called with e_count = 0 on a world that holds organisms,
\* and failed
C8_Witness ==
  /\ alg = "elite" /\ pc = "failed"
  /\ args.e_count = 0 /\ args.copy_count > 0
  /\ GetNumOrgs(pop) > 0

ElitePre == args.e_count >= 1 /\ args.e_count <= GetNumOrgs(pop0) /\ args.copy_count >= 1

EliteParents == {births[k][1] : k \in 1..Len(births)}

\* C10: EliteSelect with 1 <= e_count <= number of organisms makes exactly
\* e_count birth requests, each for another occupied slot and each of
\* copy_count copies, and no occupied slot left out is fitter than a chosen
\* one; with e_count = 1 and one strict maximum the parent is that maximum.
C10_EliteTopSet ==
  (alg = "elite" /\ pc # "idle" /\ ElitePre) =>
    /\ pc # "failed"
    /\ Len(births) <= args.e_count
    /\ pc = "done" <=> Len(births) = args.e_count
    /\ \A k \in 1..Len(births) : births[k][2] = args.copy_count
    /\ \A j, k \in 1..Len(births) : births[j][1] = births[k][1] => j = k
    /\ EliteParents \subseteq OccupiedIds(pop0)
    /\ \A c \in EliteParents : \A u \in OccupiedIds(pop0) \ EliteParents :
         CalcFitnessID(pop0, u) <= CalcFitnessID(pop0, c)
    /\ (pc = "done" /\ args.e_count = 1 /\ HasStrictMax(pop0))
         => EliteParents = StrictMaxIds(pop0)

\* EliteSelect finished: it made 2 copies of the fitter of two organisms and
\* left the other out
C10_Witness ==
  /\ alg = "elite" /\ pc = "done"
  /\ args.e_count = 1 /\ births = <<<<births[1][1], 2>>>>
  /\ \E u \in OccupiedIds(pop0) \ EliteParents :
       \A c \in EliteParents : CalcFitnessID(pop0, u) < CalcFitnessID(pop0, c)

LexGenotypes == 1..Len(loc.genotype_lists)

\* the filtering of the most recent round, from the order it drew
LastRun == LexRun(loc.fitnesses, last.order, 1, loc.all_gens, <<>>)

\* cur_gens after each function the most recent round applied
LastTrace == LastRun.trace

\* cur_gens when the most recent round drew its winner
LastCurGens == LastRun.cur_gens

\* the organisms of the genotypes of cur_gens
LexOrgsOf(cur_gens) == UNION {Range(loc.genotype_lists[g]) : g \in Range(cur_gens)}

\* the number of values of the draw winner in [0, options) that select org
LexOutcomes(cur_gens, org) ==
  Cardinality({w \in 0..(LexOptions(loc.genotype_lists, cur_gens) - 1) :
                 LexPick(loc.genotype_lists, cur_gens, w) = org})

\* C2 as stated: in LexicaseSelect every organism of a surviving genotype is
\* selected by the same number of values of the draw winner, and an organism
\* of no surviving genotype by none.
C2_WinnerUniformOverOrganisms ==
  (alg = "lexicase" /\ last.kind = "lexicase") =>
    /\ \A a, b \in LexOrgsOf(LastCurGens) :
         LexOutcomes(LastCurGens, a) = LexOutcomes(LastCurGens, b)
    /\ \A org \in 1..Len(pop) \ LexOrgsOf(LastCurGens) :
         LexOutcomes(LastCurGens, org) = 0

\* C3 as stated: in LexicaseSelect no fitness function is applied after one
\* that left a single surviving genotype, and the whole order is applied if
\* no function leaves a single one.
C3_StopsAtSingleGenotype ==
  (alg = "lexicase" /\ last.kind = "lexicase") =>
    /\ \A k \in 1..(Len(LastTrace) - 1) : Cardinality(Range(LastTrace[k])) # 1
    /\ Len(LastTrace) = Len(last.order)
         \/ Cardinality(Range(LastTrace[Len(LastTrace)])) = 1

\* the survivor set before the k-th function of the round is applied
LexBefore(k) == IF k = 1 THEN LexGenotypes ELSE Range(LastTrace[k - 1])

\* the memoized value of the k-th function of the order on genotype g
LexValue(k, g) == loc.fitnesses[last.order[k]][g]

\* C4: in LexicaseSelect the survivors start as the distinct genotypes of the
\* occupied slots, the memoized values are the functions' values on them, and
\* after each function f the survivor set is the set of the survivors before
\* it whose value for f is the maximum of f over them; it is never empty and
\* never grows.
C4_SurvivorsAreArgmax ==
  (alg = "lexicase" /\ pc \in {"run", "done"}) =>
    /\ \A id \in OccupiedIds(pop0) : \E g \in LexGenotypes :
         id \in Range(loc.genotype_lists[g])
    /\ \A g, h \in LexGenotypes :
         /\ Range(loc.genotype_lists[g]) \subseteq OccupiedIds(pop0)
         /\ \A a \in Range(loc.genotype_lists[g]), b \in Range(loc.genotype_lists[h]) :
              pop0[a] = pop0[b] <=> g = h
    /\ \A f \in 1..Len(args.fit_funs), g \in LexGenotypes :
         loc.fitnesses[f][g] = FitFun(args.fit_funs[f], pop0[loc.genotype_lists[g][1]])
    /\ last.kind = "lexicase" =>
         \A k \in 1..Len(LastTrace) :
            LET before == LexBefore(k)
                after == Range(LastTrace[k])
            IN  /\ after # {}
                /\ after \subseteq before
                /\ after = {g \in before :
                              \A h \in before : LexValue(k, h) <= LexValue(k, g)}

\* a round applied two functions to two genotypes: they tied on the first and
\* the second kept one of them
C4_Witness ==
  /\ alg = "lexicase" /\ last.kind = "lexicase"
  /\ Len(LastTrace) = 2
  /\ Cardinality(Range(LastTrace[1])) = 2
  /\ Cardinality(Range(LastTrace[2])) = 1

Requested ==
  CASE alg = "elite" -> args.e_count
    [] alg = "tournament" -> args.tourny_count
    [] alg = "roulette" -> args.count
    [] alg = "lexicase" -> args.repro_count
    [] alg = "eco" -> args.tourny_count

\* C5: a selection call that fails has made no birth, and one that returns
\* has made every birth requested.
C5_NoPartialCompletion ==
  /\ pc = "failed" => births = <<>> /\ pop = pop0 /\ nextPop = <<>>
  /\ pc = "done" => Len(births) = Requested
  /\ pc = "run" => Len(births) < Requested

\* RouletteSelect, asked for 2 offspring, failed at its first draw on a world
\* of organisms of fitness 0
C5_Witness ==
  /\ alg = "roulette" /\ pc = "failed"
  /\ args.count = 2 /\ draws = 1
  /\ GetNumOrgs(pop) = GetSize(pop) /\ GetSize(pop) > 0

\* the maximum of the ex_id-th function over the population
EcoTrueMax(ex_id) ==
  Max({FitFun(args.extra_funs[ex_id], pop0[o]) : o \in 1..Len(pop0)})

EcoTied(ex_id) ==
  {o \in 1..Len(pop0) : FitFun(args.extra_funs[ex_id], pop0[o]) = EcoTrueMax(ex_id)}

EcoExpected(org_id) ==
  CalcFitnessID(pop0, org_id) * Scale
    + SumSeq([ex_id \in 1..Len(args.extra_funs) |->
                IF org_id \in EcoTied(ex_id)
                  THEN (args.pool_sizes[ex_id] * Scale) \div Cardinality(EcoTied(ex_id))
                  ELSE 0])

\* C6 as stated: after EcoSelect's adjustment the fitness of every organism
\* is its base fitness plus, for each supplemental function whose
\* population-wide maximum it attains, the pool size divided by the number of
\* organisms attaining it, whatever the sign of the values.
C6_BonusAtPopulationMax ==
  (alg = "eco" /\ pc \in {"run", "done"} /\ args.extra_funs # <<>>
     /\ Len(args.pool_sizes) = Len(args.extra_funs)) =>
    \A org_id \in 1..Len(pop0) : loc.base_fitness[org_id] = EcoExpected(org_id)

\* C7 as stated: EcoSelect called with a list of pool sizes that is shorter
\* or longer than the list of supplemental functions fails before any birth.
C7_PoolMismatchFails ==
  (alg = "eco" /\ pc # "idle" /\ Len(args.pool_sizes) # Len(args.extra_funs)) =>
    pc = "failed" /\ births = <<>>

ZeroTotalWeight == SumSeq([id \in 1..Len(pop0) |-> CalcFitnessID(pop0, id)]) = 0

\* C9: RouletteSelect on a population of total fitness zero fails at its
\* first sampling step; it returns no parent and makes no birth.
C9_ZeroWeightFails ==
  (alg = "roulette" /\ pc # "idle" /\ args.count > 0 /\ ZeroTotalWeight) =>
    /\ births = <<>> /\ pop = pop0 /\ nextPop = <<>>
    /\ pc \in {"run", "failed"}
    /\ pc = "run" => draws = 0 /\ loc.n = 0
    /\ pc = "failed" => draws = 1 /\ last.kind = "assert"

\* RouletteSelect failed at its first draw on two organisms of fitness 0
C9_Witness ==
  /\ alg = "roulette" /\ pc = "failed"
  /\ ZeroTotalWeight /\ GetNumOrgs(pop0) = 2
  /\ draws = 1 /\ births = <<>>

\* the first position of fits whose value is the maximum of fits
FirstMax(fits) ==
  CHOOSE k \in 1..Len(fits) :
    /\ \A j \in 1..Len(fits) : fits[j] <= fits[k]
    /\ \A j \in 1..(k - 1) : fits[j] < fits[k]

\* C11: TournamentSelect on a world that holds an organism makes one birth per
\* tournament and tourny_count births in all; each tournament draws t_size
\* occupied ids (an id may be drawn more than once) and its parent is the
\* first-drawn entry whose fitness is the maximum over the entries.
C11_FirstMaxOfEachTournament ==
  [][(alg = "tournament" /\ pc = "run" /\ GetNumOrgs(pop) > 0) =>
       /\ last'.kind = "tournament"
       /\ Len(last'.entries) = args.t_size
       /\ Range(last'.entries) \subseteq OccupiedIds(pop)
       /\ last'.fits = [i \in 1..args.t_size |-> CalcFitnessID(pop, last'.entries[i])]
       /\ last'.parent = last'.entries[FirstMax(last'.fits)]
       /\ births' = Append(births, <<last'.parent, 1>>)
       /\ Len(births') <= args.tourny_count
       /\ pc' = "done" <=> Len(births') = args.tourny_count
       /\ pc' # "failed"]_vars

\* TournamentSelect finished 2 tournaments; the last one drew two different
\* organisms of equal fitness and reproduced the one drawn first
C11_Witness ==
  /\ alg = "tournament" /\ pc = "done"
  /\ args.tourny_count = 2 /\ Len(births) = 2
  /\ last.kind = "tournament" /\ args.t_size = 2
  /\ last.entries[1] # last.entries[2]
  /\ last.fits[1] = last.fits[2]
  /\ last.parent = last.entries[1]

\* C12: in RouletteSelect every draw samples the index as it then is; on an
\* asynchronous world the birth is followed by setting the weight of the
\* offspring's slot to the offspring's fitness and changes no other weight;
\* on a synchronous world the index stays as it was built from the population.
C12_AsyncRegistersOffspring ==
  [][(alg = "roulette" /\ pc = "run" /\ births' # births) =>
       /\ last'.weights = loc.fitness_index.item_weight
       /\ 0 <= last'.fit_pos /\ last'.fit_pos < GetWeight(loc.fitness_index)
       /\ IF sync
            THEN /\ loc'.fitness_index = loc.fitness_index
                 /\ \A id \in 1..Len(pop0) :
                      loc.fitness_index.item_weight[id] = CalcFitnessID(pop0, id)
            ELSE /\ loc'.fitness_index.item_weight =
                      [loc.fitness_index.item_weight EXCEPT
                         ![last'.offspring] = CalcFitnessID(pop', last'.offspring)]
                 /\ GetWeight(loc'.fitness_index) =
                      GetWeight(loc.fitness_index)
                        - loc.fitness_index.item_weight[last'.offspring]
                        + CalcFitnessID(pop', last'.offspring)]_vars

\* on an asynchronous world the second draw of a call sampled weights that
\* the first birth had changed
C12_Witness ==
  /\ alg = "roulette" /\ ~sync /\ last.kind = "roulette"
  /\ Len(births) = 2
  /\ \E id \in 1..Len(pop0) : last.weights[id] # CalcFitnessID(pop0, id)

\* the state holds a weighted index
HasIndex ==
  \/ alg = "indexmap"
  \/ alg = "roulette" /\ pc # "idle" /\ args.count > 0

\* the weight the driver's calls assigned to id last, 0 if none did
RECURSIVE LatestWeight(_, _)
LatestWeight(calls, id) ==
  IF calls = <<>> THEN 0
  ELSE IF calls[Len(calls)][1] = id THEN calls[Len(calls)][2]
       ELSE LatestWeight(SubSeq(calls, 1, Len(calls) - 1), id)

\* the weight most recently assigned to id: by the driver's calls, or by
\* RouletteSelect (the fitness of the slot when the index was built, and the
\* fitness of the offspring placed on it since, on an asynchronous world)
Assigned(id) ==
  IF alg = "indexmap" THEN LatestWeight(loc.calls, id)
  ELSE IF sync THEN CalcFitnessID(pop0, id) ELSE CalcFitnessID(pop, id)

\* C13: after any sequence of Adjust calls the weight of every id is the one
\* most recently assigned to it and GetWeight() is the sum of these weights.
C13_TotalIsSumOfWeights ==
  HasIndex =>
    LET index == loc.fitness_index
        n == Len(index.item_weight)
    IN  /\ \A id \in 1..n : index.item_weight[id] = Assigned(id)
        /\ GetWeight(index) = SumSeq([id \in 1..n |-> Assigned(id)])

\* the driver overwrote a positive weight of an id with another weight and
\* the total is still positive
C13_Witness ==
  /\ alg = "indexmap" /\ Len(loc.calls) = 3
  /\ GetWeight(loc.fitness_index) > 0
  /\ \E i, j \in 1..3 :
       /\ i < j /\ loc.calls[i][1] = loc.calls[j][1]
       /\ loc.calls[i][2] > 0 /\ loc.calls[i][2] # loc.calls[j][2]

\* the sum of the weights of the ids 1..id
Cumulative(item_weight, id) == SumSeq(SubSeq(item_weight, 1, id))

\* C14: for every position p with 0 <= p < GetWeight(), Index(p) is the id
\* whose half-open cumulative interval holds p, an id of weight 0 is never
\* returned, and Index(q) <= Index(p) for every q <= p.
C14_IndexFindsInterval ==
  HasIndex =>
    LET index == loc.fitness_index
    IN  \A p \in 0..(GetWeight(index) - 1) :
          LET id == Index(index, p)
          IN  /\ id \in 1..Len(index.item_weight)
              /\ Cumulative(index.item_weight, id - 1) <= p
              /\ p < Cumulative(index.item_weight, id)
              /\ index.item_weight[id] > 0
              /\ \A q \in 0..p : Index(index, q) <= id

\* a lookup in an index whose first id has weight 0 and whose second id has
\* weight 2 returned the second id for the last position
C14_Witness ==
  /\ alg = "indexmap" /\ last.kind = "index"
  /\ loc.fitness_index.item_weight = <<0, 2>>
  /\ last.position = 1 /\ last.id = 2

\* the distinct genotypes of the occupied slots at entry
DistinctGenotypes == {pop0[id] : id \in OccupiedIds(pop0)}

\* C15: LexicaseSelect evaluates each fitness function once per distinct
\* genotype of the occupied slots, on an organism of that genotype, whatever
\* the number of organisms that share it and of offspring produced; the
\* reproduction rounds evaluate nothing.
C15_OneEvaluationPerGenotype ==
  (alg = "lexicase" /\ pc # "idle" /\ LexicaseAsserts(pop0, args.fit_funs)) =>
    /\ evals = Len(args.fit_funs) * Cardinality(DistinctGenotypes)
    /\ Len(loc.genotype_lists) = Cardinality(DistinctGenotypes)
    /\ \A f \in 1..Len(args.fit_funs) :
         /\ Len(loc.fitnesses[f]) = Cardinality(DistinctGenotypes)
         /\ \A g \in 1..Len(loc.genotype_lists) :
              LET org_id == loc.genotype_lists[g][1]
              IN  /\ org_id \in OccupiedIds(pop0)
                  /\ loc.fitnesses[f][g] = FitFun(args.fit_funs[f], pop0[org_id])

\* LexicaseSelect made 2 offspring from two organisms of one genotype with
\* two functions, and evaluated 2 times
C15_Witness ==
  /\ alg = "lexicase" /\ pc = "done"
  /\ GetNumOrgs(pop0) = 2 /\ Cardinality(DistinctGenotypes) = 1
  /\ Len(args.fit_funs) = 2 /\ Len(births) = 2
  /\ evals = 2

\* organism a is strictly better than b on the first function passed and b
\* strictly better than a on the second
Opposed(a, b) ==
  /\ FitFun(args.fit_funs[1], pop0[a]) > FitFun(args.fit_funs[1], pop0[b])
  /\ FitFun(args.fit_funs[2], pop0[b]) > FitFun(args.fit_funs[2], pop0[a])

\* two organisms, two functions, each organism strictly better on one
TwoByTwo ==
  /\ alg = "lexicase" /\ pc \in {"run", "done"}
  /\ Len(pop0) = 2 /\ GetNumOrgs(pop0) = 2
  /\ Len(args.fit_funs) = 2
  /\ Opposed(1, 2) \/ Opposed(2, 1)

\* the organism that is strictly better on the first function passed
BetterOnFirst == IF Opposed(1, 2) THEN 1 ELSE 2

\* the orders a round can draw whose first function is f
OrdersStartingWith(f) ==
  {order \in LexOrders(loc.max_funs, Len(args.fit_funs)) : order[1] = f}

\* C16: LexicaseSelect on two organisms A and B with two functions, A strictly
\* better on function 1 and B on function 2: the parent of a round is A when
\* function 1 is first in the order and B when function 2 is, and as many
\* orders start with function 1 as with function 2.
C16_FirstFunctionDecides ==
  TwoByTwo =>
    /\ last.kind = "lexicase" =>
         last.parent = IF last.order[1] = 1 THEN BetterOnFirst ELSE 3 - BetterOnFirst
    /\ Cardinality(OrdersStartingWith(1)) = Cardinality(OrdersStartingWith(2))
    /\ OrdersStartingWith(1) # {}

\* in a call on such a population one round reproduced A and another B
C16_Witness ==
  /\ TwoByTwo /\ pc = "done"
  /\ Len(births) = 2 /\ births[1][1] # births[2][1]
  /\ args.max_funs = 0

\* C17: a world that implements the observer has had it called once per
\* offspring, the last time before the last birth, with the functions of the
\* order that the round applied, in order, and with the id passed to birth
\* as parent; a world that does not implement it has had nothing called and
\* the call did not fail for it.
C17_ObserverOncePerOffspring ==
  (alg = "lexicase" /\ pc # "idle") =>
    /\ hook.implemented =>
         /\ hook.calls = Len(births)
         /\ last.kind = "lexicase" =>
              /\ hook.at = Len(births) - 1
              /\ hook.id = births[Len(births)][1]
              /\ hook.used = SubSeq(last.order, 1, Len(LastTrace))
              /\ Len(hook.used) >= 1
              /\ Len(hook.used) < Len(last.order) => Len(LastCurGens) = 1
    /\ ~hook.implemented =>
         /\ hook = NoHook(FALSE)
         /\ (LexicaseAsserts(pop0, args.fit_funs) /\ GetNumOrgs(pop0) > 0) => pc # "failed"
         /\ pc = "done" => Len(births) = args.repro_count

\* the observer was called for the second offspring with one function of an
\* order of two: the round stopped after the first
C17_Witness ==
  /\ alg = "lexicase" /\ hook.implemented
  /\ hook.calls = 2 /\ Len(births) = 2
  /\ Len(last.order) = 2 /\ hook.used = <<last.order[1]>>

\* C18: the order of a round is a permutation of all the function indices
\* when max_funs is 0 or the number of functions, and otherwise max_funs
\* indices, each one of the function indices.
C18_OrderIsPermutationOrDraws ==
  (alg = "lexicase" /\ last.kind = "lexicase") =>
    LET n == Len(args.fit_funs)
    IN  IF args.max_funs = 0 \/ args.max_funs = n
          THEN /\ Len(last.order) = n
               /\ \A t \in 1..n : Cardinality({k \in 1..n : last.order[k] = t}) = 1
          ELSE /\ Len(last.order) = args.max_funs
               /\ Range(last.order) \subseteq 1..n

\* with one function and max_funs = 2 a round drew that function twice
C18_Witness ==
  /\ alg = "lexicase" /\ last.kind = "lexicase"
  /\ Len(args.fit_funs) = 1 /\ args.max_funs = 2
  /\ last.order = <<1, 1>>

\* the adjusted fitness EcoSelect computes from the population p
EcoAdjusted(p) ==
  EcoAdjust([org_id \in 1..Len(p) |-> CalcFitnessID(p, org_id) * Scale],
            EcoCollect(p, args.extra_funs), args.pool_sizes, 1)

\* C19: the adjusted fitness of EcoSelect is the one computed from the
\* population at entry for the whole call, whatever was born since; there is
\* one birth per tournament, tourny_count in all, and the parent of each is
\* the first-drawn entry of maximal adjusted fitness.
C19_AdjustedFitnessFixed ==
  (alg = "eco" /\ pc \in {"run", "done"}) =>
    /\ loc.base_fitness = EcoAdjusted(pop0)
    /\ Len(births) = loc.T /\ loc.T <= args.tourny_count
    /\ pc = "done" <=> loc.T = args.tourny_count
    /\ last.kind = "eco" =>
         /\ Len(last.entries) = args.t_size
         /\ last.fits = [i \in 1..args.t_size |-> loc.base_fitness[last.entries[i]]]
         /\ last.parent = last.entries[FirstMax(last.fits)]
         /\ births[Len(births)] = <<last.parent, 1>>

\* on an asynchronous world the second tournament compared the adjusted
\* fitness of entry although a birth had changed what the population gives,
\* and reproduced an entry drawn second
C19_Witness ==
  /\ alg = "eco" /\ pc = "done" /\ ~sync
  /\ Len(births) = 2 /\ last.kind = "eco"
  /\ args.extra_funs # <<>> /\ OccupiedIds(pop) = 1..Len(pop)
  /\ EcoAdjusted(pop) # loc.base_fitness
  /\ args.t_size = 2 /\ last.parent # last.entries[1]

\* the product of the id_count of the phenotypes before the i-th
RECURSIVE Radix(_, _)
Radix(phenotypes, i) ==
  IF i <= 1 THEN 1 ELSE phenotypes[i - 1].id_count * Radix(phenotypes, i - 1)

MixedRadix(phenotypes) ==
  SumSeq([i \in 1..Len(phenotypes) |-> phenotypes[i].pid * Radix(phenotypes, i)])

\* C20: MapElitesConfig::GetID returns the sum over the phenotypes of the
\* classifier output times the product of the bucket counts of the phenotypes
\* before it when every output is below its bucket count, and fails by
\* assertion when one is not.
C20_GetIDIsMixedRadix ==
  (alg = "mapelites" /\ pc # "idle") =>
    IF \A k \in 1..Len(args.phenotypes) :
         args.phenotypes[k].pid < args.phenotypes[k].id_count
      THEN pc = "done" /\ last.kind = "getid" /\ last.id = MixedRadix(args.phenotypes)
      ELSE pc = "failed"

\* GetID of outputs 1 and 2 with bucket counts 2 and 3 returned 1 + 2 * 2
C20_Witness ==
  /\ alg = "mapelites" /\ pc = "done"
  /\ args.phenotypes = <<[pid |-> 1, id_count |-> 2], [pid |-> 2, id_count |-> 3]>>
  /\ last.id = 5
----------------------------------------------------------------------------
\* C21: MapElitesSeed and MapElitesGrow only check their preconditions.  A
\* call on an empty world, or with a configuration in which some phenotype
\* has no classifier or a bucket count of zero, fails by assertion; a call
\* that satisfies both returns having made no birth, no replacement and no
\* other change to the world.
MapElitesCallOK ==
  /\ GetSize(pop0) > 0
  /\ \A k \in 1..Len(args.phenotypes) :
       args.phenotypes[k].pheno_fun /\ args.phenotypes[k].id_count > 0

----------------------------------------------------------------------------
\* the configurations that differ from the one GetID was called with in the
\* classifier outputs only, every output below its bucket count
InRangeOutputs ==
  {[k \in 1..Len(args.phenotypes) |->
      [pid |-> t[k], id_count |-> args.phenotypes[k].id_count]] :
    t \in {u \in [1..Len(args.phenotypes) -> 0..MaxBuckets] :
             \A k \in 1..Len(args.phenotypes) : u[k] < args.phenotypes[k].id_count}}

\* C30: for a configuration whose phenotypes are all OK, GetID is a bijection
\* between the tuples of in-range classifier outputs and 0..GetIDCount()-1:
\* every id is below GetIDCount(), the product of the bucket counts, two
\* different tuples never receive the same id, and every id below
\* GetIDCount() is the id of some tuple.
C30_GetIDIsBijection ==
  (alg = "mapelites" /\ pc = "done" /\ last.kind = "getid") =>
    LET count == GetIDCount(args.phenotypes, 1, 1)
        id(c) == ConfigGetID(c, 1, 0, 1)
    IN /\ last.id < count
       /\ \A c \in InRangeOutputs : id(c) \in 0..(count - 1)
       /\ \A c \in InRangeOutputs, d \in InRangeOutputs : id(c) = id(d) => c = d
       /\ \A i \in 0..(count - 1) : \E c \in InRangeOutputs : id(c) = i

\* GetID returned for MaxPhenotypes phenotypes of two and three buckets
C30_Witness ==
  /\ alg = "mapelites" /\ pc = "done" /\ last.kind = "getid"
  /\ Len(args.phenotypes) = MaxPhenotypes
  /\ args.phenotypes[1].id_count = 2
  /\ args.phenotypes[MaxPhenotypes].id_count = 3
  /\ last.id = GetIDCount(args.phenotypes, 1, 1) - 1
----------------------------------------------------------------------------
\* C22: two independently constructed Random instances given the same seed
\* s > 0 return identical results for any identical sequence of draw
\* operations, and are in the same state after it.
C22_SameSeedSameDraws ==
  (alg = "twins" /\ args.seed > 0 /\ loc.resets = 0) =>
    /\ loc.a = loc.b
    /\ last.kind = "draw" => last.outa = last.outb

\* both instances have made MaxDraws Get calls, the last of them in a
\* GetRandPoisson that returned the same number on both
C22_Witness ==
  /\ alg = "twins" /\ args.seed > 0 /\ loc.resets = 0
  /\ draws = MaxDraws /\ loc.bdraws = MaxDraws
  /\ last.kind = "draw" /\ last.op.name = "GetRandPoisson"
  /\ last.outa = last.outb

----------------------------------------------------------------------------
\* C28: after ResetSeed(s) with s > 0 on a generator that has already
\* produced any number of draws, the draws that follow are identical to the
\* draws of a freshly constructed Random(s).
C28_ResetSeedStartsAfresh ==
  (alg = "twins" /\ loc.resets = 1 /\ args.seed > 0 /\ last.kind = "draw") =>
    last.outa = last.outb
----------------------------------------------------------------------------
\* C23: each raw draw Get() advances the Weyl state by the odd constant
\* STEP_SIZE modulo 2^64, replaces the accumulator by (accumulator squared
\* plus the advanced Weyl state) modulo 2^64 with its 32-bit halves swapped,
\* and returns the low 32 bits of the new accumulator; after k draws from a
\* generator seeded with s > 0 the Weyl state is (2 s + k STEP_SIZE) mod 2^64.
C23_GetIsMiddleSquareWeyl ==
  alg = "random" =>
    /\ STEP_SIZE[1] % 2 = 1
    /\ last.kind = "Get" =>
         LET weyl == BigAdd(last.pre.weyl_state, STEP_SIZE, 8)
             acc == BigAdd(BigMul(last.pre.value, last.pre.value, 8), weyl, 8)
         IN /\ loc.a.weyl_state = weyl
            /\ loc.a.value = BigAdd(ShiftRight(acc, 32), ShiftLeft(acc, 32), 8)
            /\ last.out = Resize(LowBits(loc.a.value, 32), 4)
    /\ args.seed > 0 =>
         loc.a.weyl_state = BigAdd(BigMul(Nat2Big(2, 8), Nat2Big(args.seed, 8), 8),
                                   BigMul(Nat2Big(draws, 8), STEP_SIZE, 8), 8)

\* MaxDraws raw draws after a ResetSeed with a seed > 0 on a used generator
C23_Witness ==
  /\ alg = "random" /\ args.seed > 0 /\ loc.resets = 1
  /\ last.kind = "Get" /\ draws = MaxDraws
  /\ last.pre.value # Nat2Big(0, 8)

----------------------------------------------------------------------------
\* C24: after construction or ResetSeed with a seed s > 0, GetSeed() returns
\* s and the starting Weyl state is 2 s modulo 2^64, an even number; no draw
\* operation changes the value GetSeed() returns.
C24_SeedKeptAndDoubled ==
  alg = "random" =>
    /\ args.seed > 0 =>
         /\ GetSeed(loc.a) = Nat2Big(args.seed, 8)
         /\ draws = 0 =>
              /\ loc.a.weyl_state = BigAdd(GetSeed(loc.a), GetSeed(loc.a), 8)
              /\ loc.a.weyl_state[1] % 2 = 0
    /\ last.kind \in {"Get", "P"} => GetSeed(loc.a) = GetSeed(last.pre)

\* a generator reseeded with MaxSeed after draws, MaxDraws draws later
C24_Witness ==
  /\ alg = "random" /\ args.seed = MaxSeed /\ loc.resets = 1
  /\ last.kind = "P" /\ draws = MaxDraws
  /\ GetSeed(loc.a) = Nat2Big(MaxSeed, 8)
----------------------------------------------------------------------------
\* the generator after j calls of Get on r, and the j-th raw draw from r
RECURSIVE After(_, _)
After(r, j) == IF j = 0 THEN r ELSE After(Get(r).rng, j - 1)

RawAt(r, j) == Get(After(r, j - 1)).out

\* raw < p * 2^32, as 16 * raw < 16 p * 2^32
BelowP(raw, p16) == BigLess(BigMul(raw, Nat2Big(16, 6), 6), BigMul(Nat2Big(p16, 6), RAND_CAP, 6))

\* C25: P(p) with p in [0, 1] consumes exactly one raw draw and returns true
\* if and only if that draw is below p * 2^32, so P(0.0) is false and P(1.0)
\* is true in every generator state; with p outside [0, 1] the call fails by
\* assertion and does not return.
C25_BernoulliIsOneDraw ==
  alg = "random" =>
    /\ last.kind = "P" =>
         /\ last.p16 \in 0..16
         /\ last.gets = 1 /\ loc.a = After(last.pre, 1)
         /\ last.out <=> BelowP(RawAt(last.pre, 1), last.p16)
         /\ last.p16 = 0 => ~last.out
         /\ last.p16 = 16 => last.out
    /\ (last.kind = "assert" /\ last.op = "P") => last.p16 \notin 0..16

\* P(1.0) returned true on a generator that had made draws before
C25_Witness ==
  /\ alg = "random" /\ last.kind = "P" /\ last.p16 = 16 /\ last.out
  /\ draws = MaxDraws

----------------------------------------------------------------------------
\* the exact product raw * max of a GetUInt call, floor(raw * max / 2^32),
\* and the value returned, all in 10 bytes
UIntProduct == BigMul(RawAt(last.pre, 1), last.max, 10)

UIntFloor == ShiftRight(UIntProduct, 32)

UIntOut == Resize(last.out, 10)

\* C26 as stated: for every n with 0 < n <= 2^32 and every generator state,
\* GetUInt(n) returns floor(raw draw * n / 2^32), which lies in [0, n), and
\* consumes exactly one raw draw.
C26_GetUIntIsExactFloor ==
  (alg = "random" /\ last.kind = "GetUInt") =>
    /\ UIntOut = UIntFloor
    /\ BigLess(UIntOut, last.max)
    /\ last.gets = 1 /\ loc.a = After(last.pre, 1)

\* C26 amended: GetUInt(n) consumes exactly one raw draw and returns a value
\* in [0, n) that is floor(raw draw * n / 2^32) or that floor plus one; it is
\* the floor whenever raw draw * n is below 2^53, where the double product
\* of line 111 is exact.
C26_GetUIntIsFloorOfRoundedProduct ==
  (alg = "random" /\ last.kind = "GetUInt") =>
    /\ UIntOut = UIntFloor \/ UIntOut = BigAdd(UIntFloor, Nat2Big(1, 10), 10)
    /\ BitLen(UIntProduct) <= 53 => UIntOut = UIntFloor
    /\ BigLess(UIntOut, last.max)
    /\ last.gets = 1 /\ loc.a = After(last.pre, 1)

\* GetUInt returned one more than the floor of the exact product
C26_Witness ==
  /\ alg = "random" /\ last.kind = "GetUInt"
  /\ BitLen(UIntProduct) > 53
  /\ UIntOut = BigAdd(UIntFloor, Nat2Big(1, 10), 10)

----------------------------------------------------------------------------
\* C27: GetRandGeometric(p) with 0 < p <= 1 makes Bernoulli trials P(p), one
\* raw draw each, until the first success and returns the number of trials,
\* the success included (at least 1, and 1 when p = 1); with p = 0 it makes
\* no draw and returns a sentinel that no call with p > 0 returns.
C27_GeometricCountsTrials ==
  (alg = "random" /\ last.kind = "GetRandGeometric") =>
    IF last.p16 = 0
      THEN last.out = Infinity32 /\ last.gets = 0 /\ loc.a = last.pre
      ELSE /\ last.p16 \in 1..16
           /\ \E trials \in 1..MaxDraws :
                /\ last.out = Nat2Big(trials, 4)
                /\ last.gets = trials /\ loc.a = After(last.pre, trials)
                /\ \A j \in 1..trials :
                     BelowP(RawAt(last.pre, j), last.p16) <=> j = trials
                /\ last.p16 = 16 => trials = 1
           /\ last.out # Infinity32

\* a call with 0 < p < 1 that returned after more than two trials
C27_Witness ==
  /\ alg = "random" /\ last.kind = "GetRandGeometric"
  /\ last.p16 \in 1..15
  /\ last.gets > 2 /\ last.out = Nat2Big(last.gets, 4)

----------------------------------------------------------------------------
\* C29: GetRandPoisson(n, p) with 0.5 < p <= 1 returns a value in [0, n]:
\* the complement draw never exceeds n, so the unsigned 32-bit subtraction
\* of line 267 never wraps around.
C29_PoissonWithinCount ==
  (alg = "random" /\ last.kind = "GetRandPoisson" /\ last.p16 > 8) =>
    ~BigLess(Nat2Big(last.n, 4), last.out)
====
